---- MODULE Spec2Model ----
(***************************************************************************)
(* simple-ssh-deploy (src/src/index.ts): deploy files and run commands     *)
(* over SSH.  One deploy invocation is a chain of callbacks on the node    *)
(* event loop; every action below is one callback run to completion        *)
(* (everything the code does synchronously until its next await).          *)
(*                                                                         *)
(* Strings the code indexes (paths) are sequences of one-character         *)
(* strings, so that split, join, substring and lastIndexOf are computed    *)
(* the way the code computes them.                                         *)
(***************************************************************************)
EXTENDS Integers, Sequences, FiniteSets, TLC

\* ------------------------------------------------------------------ bounds

\* deploy invocations the host program may issue in one process
NumDeploys == 2
\* stdout data events delivered for one remote command
MaxStdout == 1
\* stderr data events delivered for one remote command
MaxStderr == 2

\* files one glob expansion matches, and paths of one explicit list, where
\* path resolution is checked on its own
MaxMatched == 3
MaxListed == 2

Deploys == 1..NumDeploys

\* ------------------------------------------------- JavaScript string helpers

Min(a, b) == IF a < b THEN a ELSE b
Max(a, b) == IF a > b THEN a ELSE b

\* String.prototype.lastIndexOf('/'): 0-based offset of the last "/", or -1
LastIndexOf(s, c) ==
    LET hits == {k \in 1..Len(s) : s[k] = c}
    IN  IF hits = {} THEN -1
        ELSE (CHOOSE k \in hits : \A m \in hits : m <= k) - 1

\* String.prototype.substring(start): a negative start counts as 0, a start
\* beyond the end as the length
Substring(s, start) ==
    LET from == Min(Max(start, 0), Len(s))
    IN  SubSeq(s, from + 1, Len(s))

\* String.prototype.slice(0, end), 0 <= end
StrSlice(s, end) == SubSeq(s, 1, Min(end, Len(s)))

RECURSIVE SplitFrom(_, _, _, _)
SplitFrom(s, k, cur, acc) ==
    IF k > Len(s) THEN Append(acc, cur)
    ELSE IF s[k] = "/" THEN SplitFrom(s, k + 1, <<>>, Append(acc, cur))
    ELSE SplitFrom(s, k + 1, Append(cur, s[k]), acc)

\* String.prototype.split('/'): "" gives [""], "/a" gives ["", "a"]
Split(s) == SplitFrom(s, 1, <<>>, <<>>)

RECURSIVE Join(_)
\* Array.prototype.join('/')
Join(segs) ==
    IF Len(segs) = 0 THEN <<>>
    ELSE IF Len(segs) = 1 THEN segs[1]
    ELSE Join(SubSeq(segs, 1, Len(segs) - 1)) \o <<"/">> \o segs[Len(segs)]

\* pathSplit.slice(0, i).join('/')
PrefixPath(pathSplit, i) == Join(SubSeq(pathSplit, 1, i))

\* ------------------------------------------------------- node 'path' (posix)

\* 1-based position of the last character that is not "/", among the
\* positions from..Len(p); 0 when there is none
LastNonSlash(p, from) ==
    LET non == {k \in from..Len(p) : p[k] # "/"}
    IN  IF non = {} THEN 0 ELSE CHOOSE k \in non : \A m \in non : m <= k

\* 1-based position of the last "/" among the positions from..(before - 1);
\* 0 when there is none
LastSlashBefore(p, from, before) ==
    LET sl == {k \in from..(before - 1) : p[k] = "/"}
    IN  IF sl = {} THEN 0 ELSE CHOOSE k \in sl : \A m \in sl : m <= k

\* path.dirname: trailing slashes are ignored, the part before the last
\* separator is returned; "." or "/" when there is no such part
dirname(p) ==
    IF Len(p) = 0 THEN <<".">>
    ELSE LET hasRoot == p[1] = "/"
             nonPos  == LastNonSlash(p, 2)
             endPos  == IF nonPos = 0 THEN 0 ELSE LastSlashBefore(p, 2, nonPos)
         IN  IF endPos = 0 THEN (IF hasRoot THEN <<"/">> ELSE <<".">>)
             ELSE IF hasRoot /\ endPos = 2 THEN <<"/", "/">>
             ELSE SubSeq(p, 1, endPos - 1)

\* path.basename: the last segment, trailing slashes ignored
basename(p) ==
    LET nonPos == LastNonSlash(p, 1)
    IN  IF nonPos = 0 THEN <<>>
        ELSE SubSeq(p, LastSlashBefore(p, 1, nonPos) + 1, nonPos)

RECURSIVE NormalizeSegs(_, _)
\* path.resolve's normalisation: "" and "." segments are dropped, ".." pops
NormalizeSegs(segs, acc) ==
    IF Len(segs) = 0 THEN acc
    ELSE LET h == Head(segs)
         IN  IF h = <<>> \/ h = <<".">> THEN NormalizeSegs(Tail(segs), acc)
             ELSE IF h = <<".", ".">>
                  THEN NormalizeSegs(Tail(segs),
                           IF Len(acc) = 0 THEN acc ELSE SubSeq(acc, 1, Len(acc) - 1))
             ELSE NormalizeSegs(Tail(segs), Append(acc, h))

\* process.cwd() of the host program
Cwd == <<"/", "w">>

\* path.resolve(filePath): an absolute, normalised path
resolvePath(filePath) ==
    LET full == IF Len(filePath) > 0 /\ filePath[1] = "/" THEN filePath
                ELSE Cwd \o <<"/">> \o filePath
    IN  <<"/">> \o Join(NormalizeSegs(Split(full), <<>>))

\* ------------------------------------------------------- path resolution

\* Number.MAX_SAFE_INTEGER (2^53 - 1) is beyond the integers of the checker;
\* it stands here as the largest one, which is beyond any path length too
MAX_SAFE_INTEGER == 2147483647

\* getLastCommonSlashIndex: the minimum of the paths' last "/" offsets
RECURSIVE MinIndexFrom(_, _, _)
MinIndexFrom(filePathArray, k, minIndex) ==
    IF k > Len(filePathArray) THEN minIndex
    ELSE LET slashIndex == LastIndexOf(filePathArray[k], "/")
         IN  MinIndexFrom(filePathArray, k + 1,
                 IF slashIndex < minIndex THEN slashIndex ELSE minIndex)

RECURSIVE MaxIndexFrom(_, _, _)
MaxIndexFrom(filePathArray, k, maxIndex) ==
    IF k > Len(filePathArray) THEN maxIndex
    ELSE LET slashIndex == LastIndexOf(filePathArray[k], "/")
         IN  MaxIndexFrom(filePathArray, k + 1,
                 IF slashIndex > maxIndex THEN slashIndex ELSE maxIndex)

\* getLastCommonSlashIndex taking the largest offset
getLargestSlashIndex(filePathArray) == MaxIndexFrom(filePathArray, 1, -1)

getLastCommonSlashIndex(filePathArray) ==
    MinIndexFrom(filePathArray, 1, MAX_SAFE_INTEGER)

\* resolveFilePaths, glob branch: files is what glob matched (absolute paths)
resolveGlob(files, remotePath) ==
    LET slashIndex == getLastCommonSlashIndex(files)
    IN  [k \in 1..Len(files) |->
            [localPath  |-> files[k],
             remotePath |-> remotePath \o Substring(files[k], slashIndex)]]

\* resolveList keeping the directory part of each listed path
resolveListKeepDirs(localFiles, remotePath) ==
    [k \in 1..Len(localFiles) |->
        [localPath  |-> resolvePath(localFiles[k]),
         remotePath |-> remotePath \o <<"/">> \o localFiles[k]]]

\* resolveFilePaths, array branch
resolveList(localFiles, remotePath) ==
    [k \in 1..Len(localFiles) |->
        [localPath  |-> resolvePath(localFiles[k]),
         remotePath |-> remotePath \o <<"/">> \o basename(localFiles[k])]]

\* resolveFilePaths, lines 196-211; matched is what glob gives for a pattern
resolveFilePaths(localFiles, remotePath, matched) ==
    IF localFiles.kind = "string" THEN resolveGlob(matched, remotePath)
    ELSE resolveList(localFiles.val, remotePath)

\* ------------------------------------------------------ the remote file system

\* The directory a path string names on the server: empty segments (a
\* doubled or trailing "/") do not count.  The empty string names nothing.
Canon(path) ==
    LET segs == NormalizeSegs(Split(path), <<>>)
    IN  IF Len(path) = 0 THEN <<>>
        ELSE IF path[1] = "/" THEN <<"/">> \o Join(segs)
        ELSE Join(segs)

\* The parent of a canonical directory; "" stands for the login directory,
\* the parent of the first segment of a relative path
Parent(cp) ==
    IF cp = <<"/">> THEN <<"/">>
    ELSE LET sl == LastIndexOf(cp, "/")
         IN  IF sl = -1 THEN <<>>
             ELSE IF sl = 0 THEN <<"/">>
             ELSE StrSlice(cp, sl)

\* sftp.opendir succeeds only on a directory that exists
DirExists(dirs, path) == Len(path) > 0 /\ Canon(path) \in dirs

\* sftp.mkdir succeeds only where the parent exists and the directory does not
CanMakeDir(dirs, path) ==
    /\ Len(path) > 0
    /\ Canon(path) \notin dirs
    /\ (Parent(Canon(path)) \in dirs \/ Parent(Canon(path)) = <<>>)

\* ------------------------------------------------------------ configuration

\* A JavaScript value of a config field: kind is "undefined", "falsy" (null,
\* 0, false or ""), "string" (non-empty), "array", "object" (a truthy value
\* with no length) or "function" (a truthy non-array whose length is 0).
Undefined == [kind |-> "undefined", val |-> <<>>]
Falsy     == [kind |-> "falsy", val |-> <<>>]
Object    == [kind |-> "object", val |-> <<>>]
Function  == [kind |-> "function", val |-> <<>>]
Str(s)    == [kind |-> "string", val |-> s]
Array(a)  == [kind |-> "array", val |-> a]

\* !!v
Truthy(v) == v.kind \notin {"undefined", "falsy"}
\* Array.isArray(v)
IsArray(v) == v.kind = "array"
\* v.length; -1 stands for undefined (neither === 0 nor > 0)
JsLength(v) ==
    IF v.kind \in {"string", "array"} THEN Len(v.val)
    ELSE IF v.kind = "function" THEN 0
    ELSE -1

\* Validate with line 30 not looking at the arrays' lengths
ValidateNoLength(c) ==
    IF ~Truthy(c.localFiles) /\ ~Truthy(c.preDeploy) /\ ~Truthy(c.postDeploy)
    THEN "No files to deploy or commands to execute"
    ELSE IF Truthy(c.localFiles) /\ c.localFiles.kind # "string" /\ ~IsArray(c.localFiles)
    THEN "localFiles config option must be a string or an array"
    ELSE IF Truthy(c.localFiles) /\ ~Truthy(c.remotePath)
    THEN "remotePath config option must be specified to deploy files"
    ELSE IF Truthy(c.preDeploy) /\ ~IsArray(c.preDeploy)
    THEN "preDeploy config option must be an array"
    ELSE IF Truthy(c.postDeploy) /\ ~IsArray(c.postDeploy)
    THEN "postDeploy config option must be an array"
    ELSE "ok"

\* Validate without the checks of lines 40-43 and 51-54
ValidateLax(c) ==
    IF /\ ~Truthy(c.localFiles)
       /\ (~Truthy(c.preDeploy) \/ JsLength(c.preDeploy) = 0)
       /\ (~Truthy(c.postDeploy) \/ JsLength(c.postDeploy) = 0)
    THEN "No files to deploy or commands to execute"
    ELSE IF Truthy(c.localFiles) /\ c.localFiles.kind # "string" /\ ~IsArray(c.localFiles)
    THEN "localFiles config option must be a string or an array"
    ELSE IF Truthy(c.preDeploy) /\ ~IsArray(c.preDeploy)
    THEN "preDeploy config option must be an array"
    ELSE "ok"

\* simpleSSHDeploy, lines 30-54: the message the config is rejected with, or
\* "ok"
Validate(c) ==
    IF /\ ~Truthy(c.localFiles)
       /\ (~Truthy(c.preDeploy) \/ JsLength(c.preDeploy) = 0)
       /\ (~Truthy(c.postDeploy) \/ JsLength(c.postDeploy) = 0)
    THEN "No files to deploy or commands to execute"
    ELSE IF Truthy(c.localFiles) /\ c.localFiles.kind # "string" /\ ~IsArray(c.localFiles)
    THEN "localFiles config option must be a string or an array"
    ELSE IF Truthy(c.localFiles) /\ ~Truthy(c.remotePath)
    THEN "remotePath config option must be specified to deploy files"
    ELSE IF Truthy(c.preDeploy) /\ ~IsArray(c.preDeploy)
    THEN "preDeploy config option must be an array"
    ELSE IF Truthy(c.postDeploy) /\ ~IsArray(c.postDeploy)
    THEN "postDeploy config option must be an array"
    ELSE "ok"

\* ------------------------------------------------------------ error values

\* The values the code rejects with are strings and the collaborators' error
\* objects.  A string is msg followed by data (data: the part that is
\* computed, a path or the collected stderr); an error object is named by the
\* collaborator call that raised it.
NoValue        == [kind |-> "none", msg |-> "", data |-> <<>>]
StringValue(m, d) == [kind |-> "string", msg |-> m, data |-> d]
ErrorObject(from) == [kind |-> "error", msg |-> from, data |-> <<>>]

\* createDirIfNeeded, line 176
PathErrorMessage == "Incorrect remotePath config option: "

\* -------------------------------------------------------------------- state

VARIABLES
    callers,     \* the deploy invocations the host program issues
    config,      \* config[d]: the SimpleSSHDeployConfig invocation d is given
    logger,      \* the module-level `logger`: "unset", "noop" or "console"
    st,          \* st[d]: the state of invocation d (see InitState)
    remoteDirs,  \* remoteDirs[d]: the directories on the host of d's session
    remoteFiles  \* remoteFiles[d]: the remote paths d's uploads have written

vars == <<callers, config, logger, st, remoteDirs, remoteFiles>>

\* One entry of an invocation's record of what it called and what called it
\* back: ev names the operation, k is "call", "ok" or "fail", ph the phase,
\* n an index (command, file or depth) and p a path.
Ev(ev, k, ph, n, p) == [ev |-> ev, k |-> k, ph |-> ph, n |-> n, p |-> p]

NoCommand == [ph |-> "-", n |-> 0, exit |-> -1, stderr |-> <<>>, verdict |-> "none"]

InitState ==
    [pc           |-> "idle",     \* which callback the invocation waits for
     sess         |-> "none",     \* sshClient: none, connecting, ready, ended, failed
     settled      |-> "pending",  \* the returned promise: pending, resolved, rejected
     reason       |-> NoValue,    \* the value it was rejected with
     connectCalls |-> 0,          \* calls of sshClient.connect
     endCalls     |-> 0,          \* calls of sshClient.end
     errored      |-> FALSE,      \* an 'error' event came after 'ready'
     endsAtSettle |-> -1,         \* endCalls when the promise settled
     lateCall     |-> FALSE,      \* a remote operation was called after a reject
     trace        |-> <<>>,       \* the calls and callbacks, in order
     consoleOut   |-> <<>>,       \* the lines this invocation got onto the console
     phase        |-> "-",        \* execCommand: "pre" or "post"
     cmdIdx       |-> 0,          \* execCommand: position in the command array
     errorData    |-> <<>>,       \* execCommand: errorData
     errSeen      |-> <<>>,       \* the stderr chunks of the running command, as they came
     outChunks    |-> 0,          \* stdout data events of the running command
     errChunks    |-> 0,          \* stderr data events of the running command
     lastCmd      |-> NoCommand,  \* the last command judged
     matched      |-> <<>>,       \* resolveFilePaths: files, what glob matched
     filePaths    |-> <<>>,       \* ready handler: filePaths
     fileIdx      |-> 0,          \* copyFiles: position in filePaths
     remoteDirPath |-> <<>>,      \* createDirIfNeeded: remoteDirPath
     pathSplit    |-> <<>>,       \* createDirIfNeeded: pathSplit
     i            |-> 0,          \* createDirIfNeeded: i
     dirsAtCall   |-> {},         \* the remote directories when createDirIfNeeded was called
     probes       |-> <<>>,       \* this createDirIfNeeded call's opendir paths
     probeFaults  |-> 0,          \* ... of which this many failed on a directory that exists
     mkdirs       |-> <<>>]       \* this createDirIfNeeded call's mkdir paths

Note(s, e) == [s EXCEPT !.trace = Append(@, e)]

\* a call of a remote operation (exec, sftp, opendir, mkdir, fastPut)
Call(s, e) ==
    [Note(s, e) EXCEPT !.lateCall = @ \/ s.settled = "rejected"]

\* logger(line): the sink `logger` holds at the moment of the call.  The
\* calls that log a progress line of copyFiles are recorded in the trace too,
\* whatever the sink.
Log(s, lg, kind, text) ==
    LET s1 == IF lg = "console"
              THEN [s EXCEPT !.consoleOut = Append(@, [kind |-> kind, text |-> text])]
              ELSE s
    IN  IF kind = "stdout" THEN s1
        ELSE Note(s1, Ev("logger", kind, s.phase, s.fileIdx, text))

\* reject settling the promise anew at every call
rejectOverwrite(s, v) ==
    [s EXCEPT !.settled = "rejected", !.reason = v, !.endsAtSettle = s.endCalls]

\* the promise's reject(value) and resolve(): only the first call settles
reject(s, v) ==
    IF s.settled = "pending"
    THEN [s EXCEPT !.settled = "rejected", !.reason = v, !.endsAtSettle = s.endCalls]
    ELSE s

resolve(s) ==
    IF s.settled = "pending"
    THEN [s EXCEPT !.settled = "resolved", !.endsAtSettle = s.endCalls]
    ELSE s

\* sshClient.end()
sshEnd(s) ==
    [Note(s, Ev("end", "call", s.phase, 0, <<>>))
        EXCEPT !.endCalls = @ + 1, !.sess = "ended"]

\* Catch with sshClient.end() left to the success path
CatchNoEnd(s, error) == [reject(s, error) EXCEPT !.pc = "done"]

\* ready handler, lines 98-103: an await threw
Catch(s, error) == [sshEnd(reject(s, error)) EXCEPT !.pc = "done"]

\* Finish without the resolve() of line 104
FinishNoResolve(s) == [sshEnd(s) EXCEPT !.pc = "done"]

\* ready handler, lines 101-104: the try block ran to its end
Finish(s) == [resolve(sshEnd(s)) EXCEPT !.pc = "done"]

\* ------------------------------------------- the ready handler's pipeline
\* Each operator is the code run synchronously from one point of the ready
\* handler up to its next await: it gives the invocation's next state.

\* execCommand not awaited: the next command is started along with this one
execCommandNoAwait(s, ph, idx) ==
    [Call(Call(s, Ev("exec", "call", ph, idx, <<>>)), Ev("exec", "call", ph, idx + 1, <<>>))
        EXCEPT !.pc = "exec", !.phase = ph, !.cmdIdx = idx,
               !.errorData = <<>>, !.errSeen = <<>>, !.outChunks = 0, !.errChunks = 0]

\* execCommand, lines 116-118: sshClient.exec(command, callback)
execCommand(s, ph, idx) ==
    [Call(s, Ev("exec", "call", ph, idx, <<>>))
        EXCEPT !.pc = "exec", !.phase = ph, !.cmdIdx = idx,
               !.errorData = <<>>, !.errSeen = <<>>, !.outChunks = 0, !.errChunks = 0]

\* lines 93-97 and 101-104: the postDeploy loop from its idx-th command
RunPost(s, c, idx) ==
    IF Truthy(c.postDeploy) /\ JsLength(c.postDeploy) > 0 /\ idx <= Len(c.postDeploy.val)
    THEN execCommand(s, "post", idx)
    ELSE Finish([s EXCEPT !.phase = "post"])

\* Probe throwing the message with the prefix last tried instead of the path
ProbeWrongPath(s) ==
    IF s.i = 0
    THEN Catch(Note(s, Ev("createDirIfNeeded", "fail", s.phase, s.fileIdx, s.remoteDirPath)),
               StringValue(PathErrorMessage, PrefixPath(s.pathSplit, s.i)))
    ELSE [Call(s, Ev("opendir", "call", s.phase, s.i, PrefixPath(s.pathSplit, s.i)))
            EXCEPT !.pc = "openDir",
                   !.probes = Append(@, PrefixPath(s.pathSplit, s.i))]

\* createDirIfNeeded, lines 174-181: the loop test and the next opendir
Probe(s) ==
    IF s.i = 0
    THEN Catch(Note(s, Ev("createDirIfNeeded", "fail", s.phase, s.fileIdx, s.remoteDirPath)),
               StringValue(PathErrorMessage, s.remoteDirPath))
    ELSE [Call(s, Ev("opendir", "call", s.phase, s.i, PrefixPath(s.pathSplit, s.i)))
            EXCEPT !.pc = "openDir",
                   !.probes = Append(@, PrefixPath(s.pathSplit, s.i))]

\* createDirIfNeeded probing from the shallowest prefix
createDirIfNeededShallowFirst(s, dirs, remoteDirPath) ==
    Probe([Note(s, Ev("createDirIfNeeded", "call", s.phase, s.fileIdx, remoteDirPath))
            EXCEPT !.remoteDirPath = remoteDirPath,
                   !.pathSplit = Split(remoteDirPath),
                   !.i = 1,
                   !.dirsAtCall = dirs, !.probes = <<>>, !.probeFaults = 0,
                   !.mkdirs = <<>>])

\* createDirIfNeeded, lines 170-173
createDirIfNeeded(s, dirs, remoteDirPath) ==
    Probe([Note(s, Ev("createDirIfNeeded", "call", s.phase, s.fileIdx, remoteDirPath))
            EXCEPT !.remoteDirPath = remoteDirPath,
                   !.pathSplit = Split(remoteDirPath),
                   !.i = Len(Split(remoteDirPath)),
                   !.dirsAtCall = dirs, !.probes = <<>>, !.probeFaults = 0,
                   !.mkdirs = <<>>])

\* MakeDirs creating the prefix of depth i before stepping i
MakeDirsOffByOne(s) ==
    IF s.i < Len(s.pathSplit)
    THEN [Call(s, Ev("mkdir", "call", s.phase, s.i, PrefixPath(s.pathSplit, s.i)))
            EXCEPT !.pc = "makeDir", !.i = @ + 1,
                   !.mkdirs = Append(@, PrefixPath(s.pathSplit, s.i))]
    ELSE [Call(Note(s, Ev("createDirIfNeeded", "ok", s.phase, s.fileIdx, s.remoteDirPath)),
               Ev("fastPut", "call", s.phase, s.fileIdx, s.filePaths[s.fileIdx].remotePath))
            EXCEPT !.pc = "copyFile"]

\* createDirIfNeeded, lines 190-193, then copyFiles, line 156
MakeDirs(s) ==
    IF s.i < Len(s.pathSplit)
    THEN [Call(s, Ev("mkdir", "call", s.phase, s.i + 1, PrefixPath(s.pathSplit, s.i + 1)))
            EXCEPT !.pc = "makeDir", !.i = @ + 1,
                   !.mkdirs = Append(@, PrefixPath(s.pathSplit, s.i + 1))]
    ELSE [Call(Note(s, Ev("createDirIfNeeded", "ok", s.phase, s.fileIdx, s.remoteDirPath)),
               Ev("fastPut", "call", s.phase, s.fileIdx, s.filePaths[s.fileIdx].remotePath))
            EXCEPT !.pc = "copyFile"]

\* CopyLoop logging "Copying" after createDirIfNeeded was called
CopyLoopLogLate(s, c, lg, dirs, k) ==
    IF k > Len(s.filePaths)
    THEN RunPost(s, c, 1)
    ELSE Log(createDirIfNeeded([s EXCEPT !.fileIdx = k], dirs,
                               dirname(s.filePaths[k].remotePath)),
             lg, "Copying ", s.filePaths[k].localPath)

\* copyFiles, lines 153-155 and 163: the loop from its k-th pair
CopyLoop(s, c, lg, dirs, k) ==
    IF k > Len(s.filePaths)
    THEN RunPost(s, c, 1)
    ELSE createDirIfNeeded(
             Log([s EXCEPT !.fileIdx = k], lg, "Copying ", s.filePaths[k].localPath),
             dirs, dirname(s.filePaths[k].remotePath))

\* copyFiles, lines 144-145: sshClient.sftp(callback)
copyFiles(s) ==
    [Call(s, Ev("sftp", "call", s.phase, 0, <<>>)) EXCEPT !.pc = "sftp"]

\* Resolved without the test of line 87
ResolvedAlwaysCopy(s, c, filePaths) ==
    copyFiles([Note(s, Ev("resolveFilePaths", "ok", s.phase, Len(filePaths), <<>>))
                 EXCEPT !.filePaths = filePaths])

\* lines 86-90: resolveFilePaths has given filePaths
Resolved(s, c, filePaths) ==
    LET s1 == [Note(s, Ev("resolveFilePaths", "ok", s.phase, Len(filePaths), <<>>))
                 EXCEPT !.filePaths = filePaths]
    IN  IF Len(filePaths) > 0 THEN copyFiles(s1) ELSE RunPost(s1, c, 1)

\* lines 85-86 and resolveFilePaths, lines 197-209
DeployFiles(s, c) ==
    IF Truthy(c.localFiles) /\ Truthy(c.remotePath)
    THEN LET s1 == Note([s EXCEPT !.phase = "transfer"],
                        Ev("resolveFilePaths", "call", "transfer", 0, <<>>))
         IN  IF c.localFiles.kind = "string"
             THEN [Note(s1, Ev("glob", "call", "transfer", 0, c.localFiles.val))
                     EXCEPT !.pc = "glob"]
             ELSE Resolved(s1, c, resolveFilePaths(c.localFiles, c.remotePath.val, <<>>))
    ELSE RunPost(s, c, 1)

\* RunPre walking the array from its end
RunPreReversed(s, c, idx) ==
    IF Truthy(c.preDeploy) /\ JsLength(c.preDeploy) > 0 /\ idx <= Len(c.preDeploy.val)
    THEN execCommand(s, "pre", Len(c.preDeploy.val) + 1 - idx)
    ELSE DeployFiles(s, c)

\* lines 78-82: the preDeploy loop from its idx-th command
RunPre(s, c, idx) ==
    IF Truthy(c.preDeploy) /\ JsLength(c.preDeploy) > 0 /\ idx <= Len(c.preDeploy.val)
    THEN execCommand(s, "pre", idx)
    ELSE DeployFiles(s, c)

\* the for loops of lines 79 and 94: the command after the one that resolved
NextCommand(s, c) ==
    IF s.phase = "pre" THEN RunPre(s, c, s.cmdIdx + 1) ELSE RunPost(s, c, s.cmdIdx + 1)

\* Judge by the exit status
JudgeByExit(errorData, exitCode) == IF exitCode # 0 THEN "failed" ELSE "ok"

\* execCommand, lines 124-130: the verdict on a command whose stream closed
\* with errorData collected, its process having exited with exitCode
Judge(errorData, exitCode) == IF errorData # <<>> THEN "failed" ELSE "ok"

\* ------------------------------------------------------------------ inputs

\* what the remote process of a command may do
StderrChunks == {<<"w">>, <<"e", "r">>}
StdoutChunk  == <<"o">>
ExitCodes    == {0, 1}

\* local paths of an explicit list: "a/f", "./g"
LocalList == << <<"a", "/", "f">>, <<".", "/", "g">> >>

\* what glob may match (absolute paths, sorted): nothing, one file, two files
\* at different depths
MatchNone == << >>
MatchOne  == << <<"/", "w", "/", "p", "/", "a">> >>
MatchDeep == << <<"/", "w", "/", "p", "/", "a">>,
                <<"/", "w", "/", "p", "/", "x", "/", "y", "/", "b">> >>
GlobMatches == {MatchNone, MatchOne, MatchDeep}

\* remote base paths: absolute, and relative with a trailing separator
RemoteAbs == <<"/", "r">>
RemoteRel == <<"r", "/">>

\* the remote directories that may exist when a session opens: the root, and
\* the first depth levels of /r/x/y and of r/x/y (under the login directory)
DirChain(base) ==
    << base, base \o <<"/", "x">>, base \o <<"/", "x", "/", "y">> >>
RemoteState(depth) ==
    {<<"/">>} \cup {DirChain(<<"/", "r">>)[k] : k \in 1..depth}
              \cup {DirChain(<<"r">>)[k] : k \in 1..depth}
RemoteStates == {RemoteState(depth) : depth \in 0..3}

LocalFilesValues == {Undefined, Falsy, Object, Str(<<"*">>), Array(<<>>), Array(LocalList)}
RemotePathValues == {Undefined, Str(RemoteAbs), Str(RemoteRel)}
PreDeployValues  == {Undefined, Array(<<>>), Array(<<"c1">>), Array(<<"c1", "c2">>),
                     Str(<<"l", "s">>), Function}
PostDeployValues == {Undefined, Falsy, Array(<<"c3">>), Object}

Configs ==
    [localFiles : LocalFilesValues, remotePath : RemotePathValues,
     preDeploy : PreDeployValues, postDeploy : PostDeployValues, silent : BOOLEAN]

\* the config of an invocation the host program never issues
NoConfig ==
    [localFiles |-> Undefined, remotePath |-> Undefined, preDeploy |-> Undefined,
     postDeploy |-> Undefined, silent |-> FALSE]

HasFiles(c) == Validate(c) = "ok" /\ Truthy(c.localFiles)

\* ------------------------------------------------------------------- Init

InitCommon ==
    /\ logger = "unset"
    /\ st = [d \in Deploys |-> InitState]
    /\ remoteFiles = [d \in Deploys |-> {}]

\* one deploy invocation, any config, any remote state
Init ==
    /\ callers = {1}
    /\ \E c \in Configs, r \in RemoteStates :
         /\ ~HasFiles(c) => r = RemoteState(0)
         /\ config = [d \in Deploys |-> IF d = 1 THEN c ELSE NoConfig]
         /\ remoteDirs = [d \in Deploys |-> IF d = 1 THEN r ELSE RemoteState(0)]
    /\ InitCommon

\* the configs of deploy invocations issued side by side: one uploads a list
\* of files after a command, the others a glob's matches
ListConfig(silent) ==
    [localFiles |-> Array(<< <<".", "/", "g">> >>),
     remotePath |-> Str(<<"/", "r", "/", "x">>),
     preDeploy |-> Array(<<"c1">>), postDeploy |-> Undefined, silent |-> silent]
GlobConfig(silent) ==
    [localFiles |-> Str(<<"*">>), remotePath |-> Str(RemoteAbs),
     preDeploy |-> Undefined, postDeploy |-> Undefined, silent |-> silent]

\* every invocation is issued, each on a session to a host of its own
InitTwo ==
    /\ callers = Deploys
    /\ \E silent \in [Deploys -> BOOLEAN] :
         config = [d \in Deploys |->
                     IF d = 1 THEN ListConfig(silent[d]) ELSE GlobConfig(silent[d])]
    /\ remoteDirs = [d \in Deploys |-> RemoteState(1)]
    /\ InitCommon

\* path resolution on its own: more paths than a whole deployment is run on
WidePaths ==
    << <<"/", "a">>,
       <<"/", "w", "/", "a">>,
       <<"/", "w", "/", "x", "/", "a">>,
       <<"/", "w", "/", "y", "/", "b">>,
       <<"/", "w", "w", "/", "b">>,
       <<"/", "w", "/", "x", "/", "y", "/", "c">> >>

RECURSIVE Pick(_, _, _)
\* the elements of seq at the positions in S, in the order of seq
Pick(seq, S, k) ==
    IF k > Len(seq) THEN <<>>
    ELSE (IF k \in S THEN <<seq[k]>> ELSE <<>>) \o Pick(seq, S, k + 1)

WideMatches ==
    {Pick(WidePaths, S, 1) : S \in {T \in SUBSET (1..Len(WidePaths)) : Cardinality(T) <= MaxMatched}}

ListedPaths ==
    {<<"a", "/", "b", "/", "f">>, <<"c", "/", "g">>, <<".", "/", "g">>,
     <<"/", "q", "/", "h">>, <<".", ".", "/", "k">>, <<"d", "/">>}
WideLists ==
    UNION {[1..n -> ListedPaths] : n \in 0..MaxListed}

WideBases == {<<"/", "r">>, <<"/", "r", "/">>, <<"r", "/", "s">>}

ResolveConfigs ==
    [localFiles : {Str(<<"*">>)} \cup {Array(l) : l \in WideLists},
     remotePath : {Str(b) : b \in WideBases},
     preDeploy : {Undefined}, postDeploy : {Undefined}, silent : {FALSE}]

InitResolve ==
    /\ callers = {1}
    /\ \E c \in ResolveConfigs :
         config = [d \in Deploys |-> IF d = 1 THEN c ELSE NoConfig]
    /\ remoteDirs = [d \in Deploys |-> RemoteState(0)]
    /\ InitCommon

\* ---------------------------------------------------------------- actions

\* simpleSSHDeploy, lines 28-112: the promise executor, run when the host
\* program calls deploy
simpleSSHDeploy(d) ==
    /\ d \in callers
    /\ st[d].pc = "idle"
    /\ LET s == Note(st[d], Ev("simpleSSHDeploy", "call", "-", 0, <<>>))
           v == Validate(config[d])
       IN  IF v # "ok"
           THEN /\ st' = [st EXCEPT ![d] = [reject(s, StringValue(v, <<>>)) EXCEPT !.pc = "done"]]
                /\ UNCHANGED logger
           ELSE /\ logger' = IF config[d].silent THEN "noop" ELSE "console"
                /\ st' = [st EXCEPT ![d] =
                            [Note(s, Ev("connect", "call", "-", 0, <<>>))
                                EXCEPT !.pc = "connecting", !.sess = "connecting",
                                       !.connectCalls = @ + 1]]
    /\ UNCHANGED <<callers, config, remoteDirs, remoteFiles>>

\* the 'ready' handler, lines 75-105, up to its first await
OnReady(d) ==
    /\ st[d].sess = "connecting"
    /\ st' = [st EXCEPT ![d] =
                RunPre([Note(st[d], Ev("ready", "ok", "-", 0, <<>>))
                            EXCEPT !.sess = "ready", !.phase = "pre"],
                       config[d], 1)]
    /\ UNCHANGED <<callers, config, logger, remoteDirs, remoteFiles>>

\* the 'error' handler, lines 107-109: the connection could not be made, or
\* the transport failed on a session that was ready
OnError(d) ==
    /\ \/ /\ st[d].sess = "connecting"
          /\ st' = [st EXCEPT ![d] =
                      [reject(Note(st[d], Ev("connect", "fail", "-", 0, <<>>)),
                              ErrorObject("connect"))
                          EXCEPT !.pc = "done", !.sess = "failed"]]
       \/ /\ st[d].sess \in {"ready", "ended"}
          /\ st' = [st EXCEPT ![d] =
                      [reject(st[d], ErrorObject("session")) EXCEPT !.errored = TRUE]]
    /\ UNCHANGED <<callers, config, logger, remoteDirs, remoteFiles>>

\* execCommand, lines 118-134: the callback of sshClient.exec
ExecCallback(d) ==
    /\ st[d].pc = "exec"
    /\ \/ st' = [st EXCEPT ![d] =
                    Catch(Note(st[d], Ev("exec", "fail", st[d].phase, st[d].cmdIdx, <<>>)),
                          ErrorObject("exec"))]
       \/ st' = [st EXCEPT ![d].pc = "stream"]
    /\ UNCHANGED <<callers, config, logger, remoteDirs, remoteFiles>>

\* execCommand, line 132: a chunk of the command's stdout
StreamData(d) ==
    /\ st[d].pc = "stream"
    /\ st[d].outChunks < MaxStdout
    /\ st' = [st EXCEPT ![d] =
                [Log(st[d], logger, "stdout", StdoutChunk) EXCEPT !.outChunks = @ + 1]]
    /\ UNCHANGED <<callers, config, logger, remoteDirs, remoteFiles>>

\* StderrData putting the chunk in front of errorData
StderrDataPrepend(d) ==
    /\ st[d].pc = "stream"
    /\ st[d].errChunks < MaxStderr
    /\ \E data \in StderrChunks :
         st' = [st EXCEPT ![d].errorData = data \o @, ![d].errChunks = @ + 1,
                          ![d].errSeen = Append(@, data)]
    /\ UNCHANGED <<callers, config, logger, remoteDirs, remoteFiles>>

\* execCommand, line 134: a chunk of the command's stderr
StderrData(d) ==
    /\ st[d].pc = "stream"
    /\ st[d].errChunks < MaxStderr
    /\ \E data \in StderrChunks :
         st' = [st EXCEPT ![d].errorData = @ \o data, ![d].errChunks = @ + 1,
                          ![d].errSeen = Append(@, data)]
    /\ UNCHANGED <<callers, config, logger, remoteDirs, remoteFiles>>

\* execCommand, lines 124-130: the stream closed, the remote process having
\* exited with some status; then the ready handler goes on
StreamClose(d) ==
    /\ st[d].pc = "stream"
    /\ \E code \in ExitCodes :
         LET s  == st[d]
             v  == Judge(s.errorData, code)
             s1 == [Note(s, Ev("exec", IF v = "ok" THEN "ok" ELSE "fail", s.phase, s.cmdIdx, <<>>))
                      EXCEPT !.lastCmd = [ph |-> s.phase, n |-> s.cmdIdx, exit |-> code,
                                          stderr |-> s.errorData, verdict |-> v]]
         IN  st' = [st EXCEPT ![d] =
                      IF v = "failed" THEN Catch(s1, StringValue("", s.errorData))
                      ELSE NextCommand(s1, config[d])]
    /\ UNCHANGED <<callers, config, logger, remoteDirs, remoteFiles>>

\* resolveFilePaths, lines 199-206: the callback of glob
GlobCallback(d) ==
    /\ st[d].pc = "glob"
    /\ \/ st' = [st EXCEPT ![d] =
                    Catch(Note(st[d], Ev("glob", "fail", "transfer", 0, <<>>)),
                          ErrorObject("glob"))]
       \/ \E files \in GlobMatches :
            st' = [st EXCEPT ![d] =
                     Resolved([Note(st[d], Ev("glob", "ok", "transfer", Len(files), <<>>))
                                  EXCEPT !.matched = files],
                              config[d],
                              resolveFilePaths(config[d].localFiles,
                                               config[d].remotePath.val, files))]
    /\ UNCHANGED <<callers, config, logger, remoteDirs, remoteFiles>>

\* copyFiles, lines 145-155: the callback of sshClient.sftp
SftpCallback(d) ==
    /\ st[d].pc = "sftp"
    /\ \/ st' = [st EXCEPT ![d] =
                    Catch(Note(st[d], Ev("sftp", "fail", "transfer", 0, <<>>)),
                          ErrorObject("sftp"))]
       \/ st' = [st EXCEPT ![d] =
                    CopyLoop(Note(st[d], Ev("sftp", "ok", "transfer", 0, <<>>)),
                             config[d], logger, remoteDirs[d], 1)]
    /\ UNCHANGED <<callers, config, logger, remoteDirs, remoteFiles>>

\* createDirIfNeeded, lines 180-188: opendir answered.  It succeeds only on
\* a directory that exists; it may fail on any path (absent, not readable,
\* the transport failing).
OpenDirCallback(d) ==
    /\ st[d].pc = "openDir"
    /\ LET s    == st[d]
           path == PrefixPath(s.pathSplit, s.i)
       IN  \/ /\ DirExists(remoteDirs[d], path)
              /\ st' = [st EXCEPT ![d] =
                          MakeDirs(Note(s, Ev("opendir", "ok", s.phase, s.i, path)))]
           \/ st' = [st EXCEPT ![d] =
                        Probe([Note(s, Ev("opendir", "fail", s.phase, s.i, path))
                                 EXCEPT !.i = @ - 1,
                                        !.probeFaults =
                                            IF DirExists(remoteDirs[d], path) THEN @ + 1 ELSE @])]
    /\ UNCHANGED <<callers, config, logger, remoteDirs, remoteFiles>>

\* createDirIfNeeded, lines 190-193: mkdir answered.  It succeeds only where
\* the parent exists and the directory does not; it may fail anywhere.
MakeDirCallback(d) ==
    /\ st[d].pc = "makeDir"
    /\ LET s    == st[d]
           path == PrefixPath(s.pathSplit, s.i)
       IN  \/ /\ CanMakeDir(remoteDirs[d], path)
              /\ st' = [st EXCEPT ![d] =
                          MakeDirs(Note(s, Ev("mkdir", "ok", s.phase, s.i, path)))]
              /\ remoteDirs' = [remoteDirs EXCEPT ![d] = @ \cup {Canon(path)}]
           \/ /\ st' = [st EXCEPT ![d] =
                          Catch(Note(s, Ev("mkdir", "fail", s.phase, s.i, path)),
                                ErrorObject("mkdir"))]
              /\ UNCHANGED remoteDirs
    /\ UNCHANGED <<callers, config, logger, remoteFiles>>

\* copyFiles, lines 156-158: fastPut answered
CopyFileCallback(d) ==
    /\ st[d].pc = "copyFile"
    /\ LET s      == st[d]
           remote == s.filePaths[s.fileIdx].remotePath
       IN  \/ /\ DirExists(remoteDirs[d], dirname(remote))
              /\ st' = [st EXCEPT ![d] =
                          CopyLoop(Log(Note(s, Ev("fastPut", "ok", s.phase, s.fileIdx, remote)),
                                       logger, "File copied to: ", remote),
                                   config[d], logger, remoteDirs[d], s.fileIdx + 1)]
              /\ remoteFiles' = [remoteFiles EXCEPT ![d] = @ \cup {remote}]
           \/ /\ st' = [st EXCEPT ![d] =
                          Catch(Note(s, Ev("fastPut", "fail", s.phase, s.fileIdx, remote)),
                                ErrorObject("fastPut"))]
              /\ UNCHANGED remoteFiles
    /\ UNCHANGED <<callers, config, logger, remoteDirs>>

Next ==
    \E d \in Deploys :
        \/ simpleSSHDeploy(d)
        \/ OnReady(d)
        \/ OnError(d)
        \/ ExecCallback(d)
        \/ StreamData(d)
        \/ StderrData(d)
        \/ StreamClose(d)
        \/ GlobCallback(d)
        \/ SftpCallback(d)
        \/ OpenDirCallback(d)
        \/ MakeDirCallback(d)
        \/ CopyFileCallback(d)

Spec == Init /\ [][Next]_vars

\* the transport answers connect: 'ready' or 'error' on a connecting session
ConnectAnswered(d) ==
    st[d].sess = "connecting" /\ (OnReady(d) \/ OnError(d))

\* a callback invocation d waits for is called.  An invocation waits for
\* one callback at a time (its pc), and a callback it waits for stays due
\* until it is called.
Callback(d) ==
    \/ ConnectAnswered(d)
    \/ ExecCallback(d)
    \/ StreamClose(d)
    \/ GlobCallback(d)
    \/ SftpCallback(d)
    \/ OpenDirCallback(d)
    \/ MakeDirCallback(d)
    \/ CopyFileCallback(d)

\* invocation d waits for a callback.  A callback that is due can always be
\* called (each has a branch with no other condition than the pc) and every
\* call of it changes st[d]: Due(d) is ENABLED <<Callback(d)>>_vars.
Due(d) ==
    st[d].pc \in {"connecting", "exec", "stream", "glob", "sftp", "openDir", "makeDir", "copyFile"}

\* Every callback the pipeline waits for is eventually called: the transport
\* answers connect, calls back exec, sftp, opendir, mkdir and fastPut and
\* closes every command stream, and glob (a walk of the local file system)
\* calls back.  This is weak fairness of Callback(d), WF_vars(Callback(d)),
\* written out with Due(d) for the enabling condition.
Fairness ==
    \A d \in Deploys : []<>(~Due(d)) \/ []<><<Callback(d)>>_vars

\* one deploy invocation, logging to the console, to an absolute remote path
InitLive ==
    /\ Init
    /\ ~config[1].silent
    /\ config[1].remotePath # Str(RemoteRel)

\* one deploy invocation whose callbacks all come
SpecLive == InitLive /\ [][Next]_vars /\ Fairness

\* resolveFilePaths, lines 196-211, applied to config[d] on its own; files is
\* what glob gives when localFiles is a pattern
ResolveCall(d) ==
    /\ d \in callers
    /\ st[d].pc = "idle"
    /\ \E files \in WideMatches :
         st' = [st EXCEPT ![d] =
                  [Note(st[d], Ev("resolveFilePaths", "ok", "transfer", 0, <<>>))
                      EXCEPT !.pc = "done",
                             !.matched = IF config[d].localFiles.kind = "string"
                                         THEN files ELSE <<>>,
                             !.filePaths = resolveFilePaths(config[d].localFiles,
                                               config[d].remotePath.val, files)]]
    /\ UNCHANGED <<callers, config, logger, remoteDirs, remoteFiles>>

NextResolve == \E d \in Deploys : ResolveCall(d)

\* path resolution alone, on any list of matched or listed paths
SpecResolve == InitResolve /\ [][NextResolve]_vars

\* several deploy invocations interleaved on the one event loop
SpecTwo == InitTwo /\ [][Next]_vars

\* =================================================================== claims

\* the transport reported 'ready' to invocation state s
WasReady(s) == \E k \in 1..Len(s.trace) : s.trace[k].ev = "ready"

\* ------------------------------------------------------------------- C1
\* C1: in one deploy invocation sshClient.end() is called at most once and
\* only on a session that became ready; once the invocation is over it has
\* been called exactly once if the session became ready, whatever phase
\* failed or none, and zero times otherwise.
C1_CloseExactlyOnce ==
    \A d \in callers :
        /\ st[d].endCalls <= 1
        /\ st[d].endCalls = 1 => WasReady(st[d])
        /\ st[d].pc = "done" => st[d].endCalls = (IF WasReady(st[d]) THEN 1 ELSE 0)

\* a session that became ready, a transfer that failed, one close
C1_Witness ==
    \E d \in callers :
        /\ st[d].pc = "done" /\ WasReady(st[d]) /\ st[d].endCalls = 1
        /\ st[d].settled = "rejected" /\ st[d].reason = ErrorObject("fastPut")

\* ------------------------------------------------------------------- C2
IsPreCall(e)  == e.ev = "exec" /\ e.k = "call" /\ e.ph = "pre"
IsPreFail(e)  == e.ev = "exec" /\ e.k = "fail" /\ e.ph = "pre"
IsLaterWork(e) ==
    e.k = "call" /\ e.ev \in {"exec", "resolveFilePaths", "glob", "sftp",
                              "createDirIfNeeded", "opendir", "mkdir", "fastPut"}
\* the positions in s.trace of the starts and of the failures of preDeploy
\* commands
PreCalls(s) == {k \in 1..Len(s.trace) : IsPreCall(s.trace[k])}
PreFails(s) == {k \in 1..Len(s.trace) : IsPreFail(s.trace[k])}

\* C2: the preDeploy commands are started in array order, the k-th start
\* being that of index k and coming only after command k-1 has succeeded;
\* once the command at index k has failed nothing is started any more (no
\* command, no file resolution, no transfer) and the deployment is Failed.
C2_PreDeployOrder ==
    \A d \in callers :
        LET s     == st[d]
            calls == PreCalls(s)
            fails == PreFails(s)
        IN  /\ \A p \in calls :
                  /\ s.trace[p].n = Cardinality({q \in calls : q <= p})
                  /\ s.trace[p].n > 1 =>
                        \E q \in 1..(p - 1) :
                            /\ s.trace[q].ev = "exec" /\ s.trace[q].k = "ok"
                            /\ s.trace[q].ph = "pre" /\ s.trace[q].n = s.trace[p].n - 1
            /\ \A f \in fails :
                  /\ \A q \in (f + 1)..Len(s.trace) : ~IsLaterWork(s.trace[q])
                  /\ remoteFiles[d] = {}
                  /\ s.pc = "done" /\ s.settled = "rejected"

\* the first of two preDeploy commands failed, with files and a postDeploy
\* command configured
C2_Witness ==
    \E d \in callers :
        /\ Len(config[d].preDeploy.val) = 2 /\ config[d].preDeploy.kind = "array"
        /\ Truthy(config[d].localFiles) /\ config[d].postDeploy.kind = "array"
        /\ \E f \in PreFails(st[d]) : st[d].trace[f].n = 1
        /\ st[d].lastCmd.stderr # <<>>
        /\ st[d].pc = "done"

\* ------------------------------------------------------------------- C3
\* C3: whenever the result of a deployment whose session became ready is
\* settled (resolved or rejected), sshClient.end() had been called before
\* the call of resolve or reject that settled it.
C3_CloseBeforeSettle ==
    \A d \in callers :
        (WasReady(st[d]) /\ st[d].settled # "pending") => st[d].endsAtSettle >= 1

\* ------------------------------------------------------------------- C4
\* C4: a command is judged when its stream closes: it has failed exactly
\* when the stderr collected by then is not empty, whatever its exit
\* status; a failed command ends the deployment, which is then Failed, and
\* a last command that succeeded ends it Succeeded (unless the transport
\* raised an error on the session before).
C4_JudgedByStderr ==
    \A d \in callers :
        LET l == st[d].lastCmd
        IN  l.verdict # "none" =>
              /\ (l.verdict = "failed") <=> (l.stderr # <<>>)
              /\ l.verdict = "failed" => (st[d].pc = "done" /\ st[d].settled = "rejected")
              /\ (l.verdict = "ok" /\ l.ph = "post" /\ l.n = Len(config[d].postDeploy.val)
                    /\ ~st[d].errored)
                    => (st[d].pc = "done" /\ st[d].settled = "resolved")

\* a command that exited with a failure status and wrote no stderr counted
\* as succeeded: the deployment went on and was resolved
C4_Witness ==
    \E d \in callers :
        /\ st[d].lastCmd.exit = 1 /\ st[d].lastCmd.stderr = <<>>
        /\ st[d].lastCmd.verdict = "ok" /\ st[d].lastCmd.ph = "post"
        /\ st[d].settled = "resolved"

\* ------------------------------------------------------------------- C5
ConfigErrors ==
    {StringValue(m, <<>>) : m \in
        {"No files to deploy or commands to execute",
         "localFiles config option must be a string or an array",
         "remotePath config option must be specified to deploy files",
         "preDeploy config option must be an array",
         "postDeploy config option must be an array"}}

\* a field that is not set: undefined or another falsy value
NotSet(v) == v.kind \in {"undefined", "falsy"}
EmptyList(v) == v.kind = "array" /\ v.val = <<>>

\* none of localFiles, preDeploy, postDeploy is set (a command array that is
\* empty counts as not set)
NothingToDo(c) ==
    /\ NotSet(c.localFiles)
    /\ NotSet(c.preDeploy) \/ EmptyList(c.preDeploy)
    /\ NotSet(c.postDeploy) \/ EmptyList(c.postDeploy)

\* C5: a deploy call whose config sets none of localFiles, preDeploy and
\* postDeploy is rejected with the message of line 31, and connect is never
\* called.
C5_NothingToDoRejected ==
    \A d \in callers :
        (NothingToDo(config[d]) /\ st[d].pc # "idle") =>
            /\ st[d].settled = "rejected"
            /\ st[d].reason = StringValue("No files to deploy or commands to execute", <<>>)
            /\ st[d].connectCalls = 0 /\ st[d].sess = "none"
            /\ st[d].pc = "done"

\* deploy was called with empty command arrays and no files
C5_Witness ==
    \E d \in callers :
        /\ NotSet(config[d].localFiles)
        /\ EmptyList(config[d].preDeploy) /\ NotSet(config[d].postDeploy)
        /\ st[d].pc = "done" /\ st[d].settled = "rejected" /\ st[d].connectCalls = 0

\* ------------------------------------------------------------------- C6
\* the other violations: localFiles set without remotePath, localFiles set
\* and neither a string nor a list, preDeploy or postDeploy set and not a list
OtherViolation(c) ==
    \/ ~NotSet(c.localFiles) /\ NotSet(c.remotePath)
    \/ ~NotSet(c.localFiles) /\ c.localFiles.kind \notin {"string", "array"}
    \/ ~NotSet(c.preDeploy) /\ c.preDeploy.kind # "array"
    \/ ~NotSet(c.postDeploy) /\ c.postDeploy.kind # "array"

\* C6: a deploy call whose config has one of the other violations is
\* rejected with one of the config messages, connect is never called and the
\* module's logger is left as it was.
C6_ViolationRejected ==
    \A d \in callers :
        (OtherViolation(config[d]) /\ st[d].pc # "idle") =>
            /\ st[d].settled = "rejected" /\ st[d].reason \in ConfigErrors
            /\ st[d].connectCalls = 0 /\ st[d].sess = "none"
            /\ st[d].pc = "done"
            /\ logger = "unset"

\* deploy was called with a glob and no remotePath, and with commands to run
C6_Witness ==
    \E d \in callers :
        /\ config[d].localFiles.kind = "string" /\ NotSet(config[d].remotePath)
        /\ config[d].preDeploy.kind = "array" /\ Len(config[d].preDeploy.val) > 0
        /\ st[d].pc = "done" /\ st[d].connectCalls = 0
        /\ st[d].reason = StringValue("remotePath config option must be specified to deploy files", <<>>)

\* ------------------------------------------------------------------- C7
\* the depth of the deepest prefix of pathSplit that is a directory of dirs;
\* 0 when none is
DeepestExisting(dirs, pathSplit) ==
    LET ex == {k \in 1..Len(pathSplit) : DirExists(dirs, PrefixPath(pathSplit, k))}
    IN  IF ex = {} THEN 0 ELSE CHOOSE k \in ex : \A m \in ex : m <= k

\* the prefixes of depth i+1 .. n, in increasing depth
MissingSuffix(pathSplit, i) ==
    [k \in 1..(Len(pathSplit) - i) |-> PrefixPath(pathSplit, i + k)]

IsPrefixOf(a, b) == Len(a) <= Len(b) /\ a = SubSeq(b, 1, Len(a))

\* createDirIfNeeded has returned for the pair the invocation is at
Ensured(s) ==
    \E k \in 1..Len(s.trace) :
        /\ s.trace[k].ev = "createDirIfNeeded" /\ s.trace[k].k = "ok"
        /\ s.trace[k].n = s.fileIdx

\* C7: in a call of createDirIfNeeded on a path of n segments whose deepest
\* existing prefix has depth i >= 1, and in which opendir failed on absent
\* directories only, the mkdir calls made so far are the first of the
\* prefixes of depth i+1 .. n in increasing depth, and when the call
\* returns they are all of them (none when i = n).
C7_CreatesMissingSuffix ==
    \A d \in callers :
        LET s     == st[d]
            iStar == DeepestExisting(s.dirsAtCall, s.pathSplit)
        IN  (Len(s.pathSplit) > 0 /\ iStar >= 1 /\ s.probeFaults = 0) =>
              /\ IsPrefixOf(s.mkdirs, MissingSuffix(s.pathSplit, iStar))
              /\ Ensured(s) => s.mkdirs = MissingSuffix(s.pathSplit, iStar)
              /\ \A k \in 1..Len(s.mkdirs) :
                    Canon(s.mkdirs[k]) \notin s.dirsAtCall

\* only /r existed, createDirIfNeeded("/r/x/y") returned having created
\* /r/x, then /r/x/y
C7_Witness ==
    \E d \in callers :
        /\ st[d].remoteDirPath = <<"/", "r", "/", "x", "/", "y">>
        /\ st[d].dirsAtCall = {<<"/">>, <<"/", "r">>, <<"r">>}
        /\ st[d].probeFaults = 0
        /\ Ensured(st[d])
        /\ st[d].mkdirs = << <<"/", "r", "/", "x">>, <<"/", "r", "/", "x", "/", "y">> >>

\* ------------------------------------------------------------------- C8
\* createDirIfNeeded threw because the depth index reached 0
PathFailed(s) ==
    \E k \in 1..Len(s.trace) :
        s.trace[k].ev = "createDirIfNeeded" /\ s.trace[k].k = "fail"

\* C8 as stated: when no prefix could be opened the deployment fails with
\* "Incorrect remotePath: " + remoteDirPath
C8_AsStated ==
    \A d \in callers :
        PathFailed(st[d]) =>
            /\ st[d].settled = "rejected"
            /\ st[d].reason = StringValue("Incorrect remotePath: ", st[d].remoteDirPath)

\* C8, amended: when no prefix could be opened (every opendir failed, down
\* to depth 0) createDirIfNeeded creates nothing and throws
\* "Incorrect remotePath config option: " + remoteDirPath; the deployment is
\* over and Failed, with that value as its reason unless an 'error' event of
\* the session had rejected it before.
C8_PathError ==
    \A d \in callers :
        PathFailed(st[d]) =>
            /\ st[d].i = 0 /\ Len(st[d].probes) = Len(st[d].pathSplit)
            /\ st[d].mkdirs = <<>>
            /\ st[d].pc = "done" /\ st[d].settled = "rejected"
            /\ \/ st[d].reason =
                    StringValue("Incorrect remotePath config option: ", st[d].remoteDirPath)
               \/ st[d].errored /\ st[d].reason = ErrorObject("session")

\* /r did not exist: the deployment failed with the message about "/r"
C8_Witness ==
    \E d \in callers :
        /\ PathFailed(st[d])
        /\ st[d].probes = << <<"/", "r">>, <<>> >>
        /\ st[d].reason =
             StringValue("Incorrect remotePath config option: ", <<"/", "r">>)

\* ------------------------------------------------------------------- C9
\* C9: an invocation configured silent never gets a line (a stdout chunk, a
\* transfer progress line) onto the console, whatever the other invocations
\* are configured with and however they interleave.
C9_SilentStaysSilent ==
    \A d \in callers : config[d].silent => st[d].consoleOut = <<>>

\* ------------------------------------------------------------------ C10
\* resolveFilePaths has answered for invocation state s
HasResolved(s) ==
    \E k \in 1..Len(s.trace) : s.trace[k].ev = "resolveFilePaths" /\ s.trace[k].k = "ok"

\* the 0-based offset of the last "/" of an absolute path
LastSlashOffset(path) ==
    (CHOOSE k \in 1..Len(path) :
        path[k] = "/" /\ \A m \in (k + 1)..Len(path) : path[m] # "/") - 1

\* the least of the paths' last-separator offsets
LeastLastSlash(paths) ==
    LET offs == {LastSlashOffset(paths[j]) : j \in 1..Len(paths)}
    IN  CHOOSE o \in offs : \A q \in offs : o <= q

\* C10: for a glob, resolveFilePaths gives one pair per matched path, in
\* order, with localPath the matched path p and remotePath the remote base
\* followed by p from offset k on, k being the least of the matched paths'
\* last-separator offsets.
C10_GlobPairs ==
    \A d \in callers :
        LET s == st[d]
        IN  (config[d].localFiles.kind = "string" /\ HasResolved(s)) =>
              /\ Len(s.filePaths) = Len(s.matched)
              /\ \A j \in 1..Len(s.matched) :
                    /\ s.filePaths[j].localPath = s.matched[j]
                    /\ s.filePaths[j].remotePath =
                          config[d].remotePath.val
                            \o SubSeq(s.matched[j], LeastLastSlash(s.matched) + 1,
                                      Len(s.matched[j]))

\* /w/x/a and /w/y/b matched, base /r: the pairs go to /r/a and /r/b
C10_Witness ==
    \E d \in callers :
        /\ config[d].localFiles.kind = "string"
        /\ config[d].remotePath.val = <<"/", "r">>
        /\ st[d].matched = << <<"/", "w", "/", "x", "/", "a">>, <<"/", "w", "/", "y", "/", "b">> >>
        /\ st[d].filePaths =
             << [localPath |-> <<"/", "w", "/", "x", "/", "a">>, remotePath |-> <<"/", "r", "/", "a">>],
                [localPath |-> <<"/", "w", "/", "y", "/", "b">>, remotePath |-> <<"/", "r", "/", "b">>] >>

\* ------------------------------------------------------------------ C11
\* the file name of a local path: its last segment that is not empty
FileName(path) ==
    LET segs == Split(path)
        full == {k \in 1..Len(segs) : segs[k] # <<>>}
    IN  IF full = {} THEN <<>>
        ELSE segs[CHOOSE k \in full : \A m \in full : m <= k]

\* C11: for an explicit list, resolveFilePaths gives one pair per element of
\* the list, in list order, whose remotePath is the remote base, "/" and the
\* file name of the element: the element's directory part is dropped.
C11_ListPairs ==
    \A d \in callers :
        LET s    == st[d]
            list == config[d].localFiles.val
        IN  (config[d].localFiles.kind = "array" /\ HasResolved(s)) =>
              /\ Len(s.filePaths) = Len(list)
              /\ \A j \in 1..Len(list) :
                    /\ s.filePaths[j].remotePath =
                          config[d].remotePath.val \o <<"/">> \o FileName(list[j])
                    /\ "/" \notin {FileName(list[j])[m] : m \in 1..Len(FileName(list[j]))}

\* ["a/b/f", "c/g"] with base /r: the pairs go to /r/f and /r/g
C11_Witness ==
    \E d \in callers :
        /\ config[d].localFiles = Array(<< <<"a", "/", "b", "/", "f">>, <<"c", "/", "g">> >>)
        /\ config[d].remotePath.val = <<"/", "r">>
        /\ HasResolved(st[d])
        /\ Len(st[d].filePaths) = 2
        /\ st[d].filePaths[1].remotePath = <<"/", "r", "/", "f">>
        /\ st[d].filePaths[2].remotePath = <<"/", "r", "/", "g">>

\* ------------------------------------------------------------------ C12
\* glob called back with no error and no file
EmptyGlob(s) ==
    \E k \in 1..Len(s.trace) :
        s.trace[k].ev = "glob" /\ s.trace[k].k = "ok" /\ s.trace[k].n = 0

TransferOps == {"sftp", "createDirIfNeeded", "opendir", "mkdir", "fastPut"}

\* C12: when glob matches no file, resolveFilePaths gives the empty list and
\* no error; no sftp channel is opened and no opendir, mkdir or fastPut is
\* called; the first postDeploy command, if there is one, is started at once,
\* and with no postDeploy command the deployment is over, resolved unless an
\* 'error' event of the session had rejected it.
C12_EmptyGlob ==
    \A d \in callers :
        LET s    == st[d]
            post == config[d].postDeploy
        IN  EmptyGlob(s) =>
              /\ HasResolved(s) /\ s.filePaths = <<>>
              /\ \A k \in 1..Len(s.trace) : s.trace[k].ev \notin TransferOps
              /\ remoteFiles[d] = {} /\ remoteDirs[d] \in RemoteStates
              /\ s.reason # ErrorObject("glob")
              /\ IF post.kind = "array" /\ Len(post.val) > 0
                 THEN \E k \in 2..Len(s.trace) :
                        /\ s.trace[k] = Ev("exec", "call", "post", 1, <<>>)
                        /\ s.trace[k - 1].ev = "resolveFilePaths"
                 ELSE s.pc = "done" /\ (s.settled = "resolved" \/ s.errored)

\* the glob matched nothing, the postDeploy command ran and the deployment
\* was resolved
C12_Witness ==
    \E d \in callers :
        /\ EmptyGlob(st[d])
        /\ config[d].postDeploy = Array(<<"c3">>)
        /\ st[d].lastCmd.ph = "post" /\ st[d].lastCmd.verdict = "ok"
        /\ st[d].settled = "resolved" /\ st[d].pc = "done"

\* ------------------------------------------------------------------ C13
\* C13: once a deploy invocation has failed (its promise was rejected) it
\* starts no further remote operation: no exec, sftp, opendir, mkdir or
\* fastPut is called after the reject.
C13_ErrorAbortsPipeline ==
    \A d \in callers : ~st[d].lateCall

\* ------------------------------------------------------------------ C14
\* C14: a deployment that passed validation (a Client was created and
\* connect was called on it) and is over has had sshClient.end() called,
\* also when it is over because the connection could not be made.
C14_ClosedOnEveryExit ==
    \A d \in callers :
        (st[d].connectCalls >= 1 /\ st[d].pc = "done") => st[d].endCalls >= 1

\* ------------------------------------------------------------------ C15
\* the steps of copyFiles on one pair: the progress lines, the call and the
\* return of createDirIfNeeded, the call and the return of fastPut
IsPairStep(e) == e.ev \in {"logger", "createDirIfNeeded", "fastPut"}

\* the r-th step (r in 0..5) of the loop body on the k-th pair of filePaths
PairStep(filePaths, k, r) ==
    LET fp == filePaths[k]
    IN  CASE r = 0 -> Ev("logger", "Copying ", "transfer", k, fp.localPath)
          [] r = 1 -> Ev("createDirIfNeeded", "call", "transfer", k, dirname(fp.remotePath))
          [] r = 2 -> Ev("createDirIfNeeded", "ok", "transfer", k, dirname(fp.remotePath))
          [] r = 3 -> Ev("fastPut", "call", "transfer", k, fp.remotePath)
          [] r = 4 -> Ev("fastPut", "ok", "transfer", k, fp.remotePath)
          [] r = 5 -> Ev("logger", "File copied to: ", "transfer", k, fp.remotePath)

\* the remote paths of the pairs whose upload has returned with no error
Uploaded(s) ==
    {s.trace[k].p : k \in {m \in 1..Len(s.trace) :
                              s.trace[m].ev = "fastPut" /\ s.trace[m].k = "ok"}}

\* C15: the steps copyFiles has taken are, in order, those of pair 1, then
\* those of pair 2, ..., each pair's being: log "Copying <local>",
\* createDirIfNeeded on the remote parent directory, fastPut, log "File
\* copied to: <remote>"; a step that failed is the last one taken; the
\* files on the remote host are exactly those of the uploads that returned
\* with no error, also after a failure; a console logger has printed every
\* progress line.
C15_TransferOrder ==
    \A d \in callers :
        LET s     == st[d]
            steps == SelectSeq(s.trace, IsPairStep)
        IN  /\ Len(steps) <= 6 * Len(s.filePaths)
            /\ \A j \in 1..Len(steps) :
                  LET want == PairStep(s.filePaths, ((j - 1) \div 6) + 1, (j - 1) % 6)
                  IN  \/ steps[j] = want
                      \/ /\ steps[j] = [want EXCEPT !.k = "fail"]
                         /\ want.k = "ok" /\ j = Len(steps)
                         /\ s.pc = "done" /\ s.settled = "rejected"
            /\ remoteFiles[d] = Uploaded(s)
            /\ remoteFiles[d] =
                  {s.filePaths[k].remotePath : k \in 1..(Len(steps) \div 6)}
                    \cup (IF Len(steps) % 6 = 5 /\ steps[Len(steps)].k = "ok"
                          THEN {s.filePaths[(Len(steps) \div 6) + 1].remotePath} ELSE {})
            /\ (s.pc = "done" /\ s.settled = "resolved") => Len(steps) = 6 * Len(s.filePaths)
            /\ ~config[d].silent =>
                  Len(SelectSeq(steps, LAMBDA e : e.ev = "logger"))
                    = Len(SelectSeq(s.consoleOut, LAMBDA l : l.kind # "stdout"))

\* of two pairs the first was uploaded and the upload of the second failed:
\* the first file is on the remote host
C15_Witness ==
    \E d \in callers :
        /\ Len(st[d].filePaths) = 2
        /\ st[d].fileIdx = 2
        /\ st[d].reason = ErrorObject("fastPut")
        /\ st[d].pc = "done"
        /\ remoteFiles[d] = {st[d].filePaths[1].remotePath}

\* ------------------------------------------------------------------ C16
\* the calls and the completions of the remote operations
IsRemoteOp(e) ==
    e.ev \in {"exec", "sftp", "opendir", "mkdir", "fastPut"} /\ e.k \in {"call", "ok", "fail"}

PhaseRank(ph) == CASE ph = "pre" -> 1 [] ph = "transfer" -> 2 [] ph = "post" -> 3 [] OTHER -> 0

\* C16: in one invocation the calls and completions of remote operations
\* alternate, each completion being that of the call before it, so that at
\* most one operation is in flight, and one is exactly while the invocation
\* waits for a callback of the transport; the operations of preDeploy come
\* before those of the transfer, which come before those of postDeploy.
C16_Sequential ==
    \A d \in callers :
        LET s   == st[d]
            ops == SelectSeq(s.trace, IsRemoteOp)
        IN  /\ \A j \in 1..Len(ops) :
                  IF j % 2 = 1 THEN ops[j].k = "call"
                  ELSE /\ ops[j].k \in {"ok", "fail"}
                       /\ ops[j].ev = ops[j - 1].ev /\ ops[j].n = ops[j - 1].n
                       /\ ops[j].ph = ops[j - 1].ph
            /\ \A j \in 1..Len(ops) :
                  /\ ops[j].ev = "exec" <=> ops[j].ph \in {"pre", "post"}
                  /\ ops[j].ev # "exec" <=> ops[j].ph = "transfer"
                  /\ j > 1 => PhaseRank(ops[j - 1].ph) <= PhaseRank(ops[j].ph)
            /\ (Len(ops) % 2 = 1)
                  <=> s.pc \in {"exec", "stream", "sftp", "openDir", "makeDir", "copyFile"}

\* a preDeploy command, an upload and a postDeploy command have all
\* completed in one invocation
C16_Witness ==
    \E d \in callers :
        LET ops == SelectSeq(st[d].trace, IsRemoteOp)
        IN  /\ \E j \in 1..Len(ops) : ops[j] = Ev("exec", "ok", "pre", 1, <<>>)
            /\ \E j \in 1..Len(ops) : ops[j].ev = "fastPut" /\ ops[j].k = "ok"
            /\ \E j \in 1..Len(ops) : ops[j] = Ev("exec", "ok", "post", 1, <<>>)
            /\ st[d].pc = "done"

\* ------------------------------------------------------------------ C17
RECURSIVE Concat(_)
\* the chunks of a sequence joined in order
Concat(chunks) ==
    IF Len(chunks) = 0 THEN <<>> ELSE Head(chunks) \o Concat(Tail(chunks))

\* the collaborator calls that can call back with an error
Collaborators == {"connect", "exec", "glob", "sftp", "mkdir", "fastPut"}

\* the failure the ready handler caught, if any: the last entry of the trace
\* before the call of sshClient.end() when that entry is a failure
CaughtAt(s) ==
    {k \in 1..(Len(s.trace) - 1) : s.trace[k].k = "fail" /\ s.trace[k + 1].ev = "end"}

\* C17: the reason a deployment is rejected with is the value of the step
\* that failed first, as it was raised: for a command judged failed, the
\* string made of its stderr chunks joined in the order they came; for a
\* collaborator call that called back with an error (connect, exec, glob,
\* sftp, mkdir, fastPut) or an 'error' event of the session, that error
\* object; and it is the session's error object only if such an event came.
C17_RawReason ==
    \A d \in callers :
        LET s == st[d]
        IN  /\ \A k \in CaughtAt(s) :
                  LET e == s.trace[k]
                  IN  /\ s.settled = "rejected"
                      /\ \/ s.errored /\ s.reason = ErrorObject("session")
                         \/ /\ e.ev = "exec" /\ s.lastCmd.verdict = "failed"
                            /\ s.lastCmd.ph = e.ph /\ s.lastCmd.n = e.n
                            /\ s.reason = StringValue("", Concat(s.errSeen))
                            /\ s.reason.data # <<>>
                         \/ /\ e.ev \in Collaborators
                            /\ ~(e.ev = "exec" /\ s.lastCmd.verdict = "failed")
                            /\ s.reason = ErrorObject(e.ev)
                         \/ /\ e.ev = "createDirIfNeeded"
                            /\ s.reason = StringValue(PathErrorMessage, s.remoteDirPath)
            /\ s.lastCmd.verdict = "failed" => CaughtAt(s) # {}
            /\ s.sess = "failed" => s.reason = ErrorObject("connect")
            /\ s.reason = ErrorObject("session") => s.errored

\* a command wrote "w", then "er", to stderr: the deployment was rejected
\* with "wer"
C17_Witness ==
    \E d \in callers :
        /\ st[d].errSeen = << <<"w">>, <<"e", "r">> >>
        /\ st[d].lastCmd.verdict = "failed"
        /\ st[d].settled = "rejected"
        /\ st[d].reason = StringValue("", <<"w", "e", "r">>)

\* ------------------------------------------------------------------ C18
\* the commands of a config field: none unless it is an array
Commands(v) == IF v.kind = "array" THEN v.val ELSE <<>>

\* every configured command has closed judged ok, the files were resolved if
\* there were files to deploy, and every resolved pair was uploaded
AllDone(s, c, files) ==
    /\ \A n \in 1..Len(Commands(c.preDeploy)) :
          \E k \in 1..Len(s.trace) : s.trace[k] = Ev("exec", "ok", "pre", n, <<>>)
    /\ \A n \in 1..Len(Commands(c.postDeploy)) :
          \E k \in 1..Len(s.trace) : s.trace[k] = Ev("exec", "ok", "post", n, <<>>)
    /\ ~NotSet(c.localFiles) => HasResolved(s)
    /\ \A n \in 1..Len(s.filePaths) :
          /\ \E k \in 1..Len(s.trace) :
                s.trace[k] = Ev("fastPut", "ok", "transfer", n, s.filePaths[n].remotePath)
          /\ s.filePaths[n].remotePath \in files

\* C18: a command is recorded as succeeded only in a step in which its
\* stream closes with no stderr chunk received; a deployment is resolved
\* only when every configured preDeploy and postDeploy command has succeeded
\* and every resolved pair was uploaded; and once the promise is settled, no
\* step changes its state or its reason.
C18_Outcome ==
    [][\A d \in callers :
          /\ (\E k \in (Len(st[d].trace) + 1)..Len(st'[d].trace) :
                  st'[d].trace[k].ev = "exec" /\ st'[d].trace[k].k = "ok")
                => (st[d].pc = "stream" /\ st[d].errSeen = <<>>)
          /\ st'[d].settled = "resolved" => AllDone(st'[d], config'[d], remoteFiles'[d])
          /\ st[d].settled # "pending" =>
                (st'[d].settled = st[d].settled /\ st'[d].reason = st[d].reason)]_vars

\* a deployment with commands and files was resolved, and an 'error' event
\* of the session came after that
C18_Witness ==
    \E d \in callers :
        /\ st[d].settled = "resolved" /\ st[d].errored
        /\ Len(Commands(config[d].preDeploy)) = 2
        /\ Len(Commands(config[d].postDeploy)) = 1
        /\ Len(st[d].filePaths) = 2

\* ------------------------------------------------------------------ C19
\* the positions in s.trace of the opendir calls that succeeded within the
\* createDirIfNeeded call the invocation is at
ProbeHits(s) ==
    {k \in 1..Len(s.trace) :
        /\ s.trace[k].ev = "opendir" /\ s.trace[k].k = "ok"
        /\ \E c \in 1..(k - 1) :
              /\ s.trace[c] = Ev("createDirIfNeeded", "call", "transfer", s.fileIdx, s.remoteDirPath)
              /\ \A m \in (c + 1)..k : s.trace[m].ev \in {"opendir", "mkdir"}}

\* C19: within a call of createDirIfNeeded the j-th opendir is on the prefix
\* of depth n - j + 1 (deepest first, one level up after every failure,
\* whatever made it fail); mkdir is called only after an opendir has
\* succeeded, and then on the prefixes below the one that opened, also when
\* one of them exists; "/" is never probed and the shallowest probe of an
\* absolute path is the empty string; when only the root directory exists,
\* the call on an absolute path ends with the path error and no mkdir.
C19_ProbeOrder ==
    \A d \in callers :
        LET s == st[d]
            n == Len(s.pathSplit)
        IN  /\ Len(s.probes) <= n
            /\ \A j \in 1..Len(s.probes) :
                  /\ s.probes[j] = PrefixPath(s.pathSplit, n - j + 1)
                  /\ s.probes[j] # <<"/">>
            /\ (Len(s.probes) = n /\ n > 0 /\ s.remoteDirPath[1] = "/")
                  => s.probes[n] = <<>>
            /\ s.mkdirs # <<>> =>
                  /\ ProbeHits(s) # {}
                  /\ IsPrefixOf(s.mkdirs, MissingSuffix(s.pathSplit, n - Len(s.probes) + 1))
            /\ PathFailed(s) => (ProbeHits(s) = {} /\ Len(s.probes) = n)
            /\ (n > 0 /\ s.remoteDirPath[1] = "/" /\ s.dirsAtCall = {<<"/">>}
                   /\ s.pc \notin {"openDir"})
                  => /\ PathFailed(s) /\ s.mkdirs = <<>>
                     /\ s.pc = "done" /\ s.settled = "rejected"
                     /\ remoteDirs[d] = {<<"/">>}

\* only the root directory existed: "/r" and "" were probed, nothing was
\* created and the deployment failed with the path error
C19_Witness ==
    \E d \in callers :
        /\ st[d].dirsAtCall = {<<"/">>} /\ remoteDirs[d] = {<<"/">>}
        /\ st[d].remoteDirPath = <<"/", "r">>
        /\ st[d].probes = << <<"/", "r">>, <<>> >>
        /\ st[d].mkdirs = <<>> /\ st[d].probeFaults = 0
        /\ PathFailed(st[d]) /\ ~st[d].errored
        /\ st[d].settled = "rejected" /\ st[d].pc = "done"

\* ------------------------------------------------------------------ C20
\* C20: a deploy invocation that passed validation (connect was called) is
\* eventually settled, resolved or rejected, when every callback it waits
\* for eventually comes.
C20_EventuallySettles ==
    \A d \in Deploys :
        (st[d].connectCalls = 1) ~> (st[d].settled \in {"resolved", "rejected"})

\* a deployment of two commands, two matched files and a last command went
\* through every step and was resolved
C20_Witness ==
    \E d \in callers :
        /\ st[d].connectCalls = 1 /\ st[d].settled = "resolved" /\ st[d].pc = "done"
        /\ st[d].matched = MatchDeep /\ remoteFiles[d] # {}
        /\ st[d].lastCmd.ph = "post" /\ ~st[d].errored

====
